---- MODULE Spec2Model ----
(***************************************************************************)
(* python-circuit: the circuit breaker of circuit/breaker.py.              *)
(*                                                                         *)
(* One CircuitBreaker object, a clock, and a few callers that wrap a       *)
(* protected operation in the breaker's context ("with breaker: func()",   *)
(* which is also what the decorator form does).  The callers are           *)
(* cooperative: __enter__ and __exit__ each run to completion, but the     *)
(* protected operations of different callers may overlap.                  *)
(*                                                                         *)
(* Encoding.  Python's None and the optional values are sequences: None    *)
(* is <<>>, a time t is <<t>>, and a max_error_rate p/q is <<p, q>>.       *)
(* Clock readings are integers (ticks) instead of float seconds; the       *)
(* error rate max_fail / total_calls is compared with max_error_rate as    *)
(* an exact fraction.                                                      *)
(***************************************************************************)
EXTENDS Integers, Sequences, FiniteSets, TLC

\* ---------------------------------------------------------------- bounds
MaxTime == 3       \* the clock stops advancing at MaxTime
MaxCalls == 2      \* no call-count slot is incremented beyond MaxCalls
NumCallers == 2    \* callers whose protected operations may overlap
MaxFail == 2       \* largest max_fail a breaker is constructed with

\* ----------------------------------------------------------- value spaces
None == <<>>

Callers == 1..NumCallers

\* What the protected operation raises; "None" is a normal return.
\* SubIOError is a subclass of IOError (test_breaker.py:135).
Exceptions == {"IOError", "SubIOError", "RuntimeError"}
Outcomes == {"None"} \cup Exceptions

\* The classes an exception class is an instance of (itself and its bases).
Mro(exc) ==
    IF exc = "SubIOError" THEN {"SubIOError", "IOError"} ELSE {exc}

\* Mutant: the exception's class is looked up in error_types, bases ignored.
IsInstance_Exact(exc, types) == exc \in types

\* isinstance(exc_val, self._error_types)
IsInstance(exc, types) == Mro(exc) \cap types # {}

\* Constructor arguments a breaker is built from.
MaxFailChoices == 1..MaxFail
TimeUnitChoices == {None, <<2>>}
MaxErrorRateChoices == {None, <<2, 3>>}
ResetTimeoutChoices == {1, 2}
ErrorTypesChoices == {{"IOError"}, {"SubIOError"}}

VARIABLES
    max_fail,        \* self._max_fail
    time_unit,       \* self._time_unit
    max_error_rate,  \* self._max_error_rate
    reset_timeout,   \* self._reset_timeout
    error_types,     \* self._error_types
    state,           \* self._state
    last_change,     \* self._last_change
    error_times,     \* self._error_times
    num_calls,       \* self._num_calls
    now,             \* what self._clock() returns
    pc,              \* each caller's position in "with self: return func()"
    lock,            \* self._state_lock: 0 when free, else the thread holding it
    local,           \* per thread, the locals of a ThreadSafeCircuitBreaker call
    num_errors,      \* history: calls of _error so far, saturating at max_fail + 1
    opened_at,       \* history: the clock time of the latest change into open
    last             \* history: the step just taken: the operation, the state it
                     \* started in, the exception handed to __exit__ and the
                     \* exception that reached the caller

config == <<max_fail, time_unit, max_error_rate, reset_timeout, error_types>>
breaker == <<state, last_change, error_times, num_calls>>
threads == <<lock, local>>
vars == <<max_fail, time_unit, max_error_rate, reset_timeout, error_types,
          state, last_change, error_times, num_calls, now, pc, lock, local,
          num_errors, opened_at, last>>

\* ------------------------------------------------------------ construction
\* The two checks of __init__ on its arguments.
ValidConfig(tu, mer) ==
    /\ ~(tu = None /\ mer = None)
    /\ mer # None => (0 < mer[1] /\ mer[1] <= mer[2])

\* [x] * n
Repeat(x, n) == [i \in 1..n |-> x]

\* The locals of a thread that is in no call.
NoLocals == [exc |-> "None", val |-> 0, now |-> 0, raises |-> "None",
             set_open |-> FALSE]

\* The clock, the callers and the history before any call.
Start ==
    /\ now = 0
    /\ pc = [c \in Callers |-> "idle"]
    /\ lock = 0
    /\ local = [c \in Callers |-> NoLocals]
    /\ num_errors = 0
    /\ opened_at = None

\* The assignments of __init__ once its arguments have passed the checks.
Fields ==
    /\ last_change = None
    /\ error_times = Repeat(None, max_fail)
    /\ num_calls = Repeat(0, max_fail)
    /\ state = "closed"
    /\ last = [op |-> "init", from |-> "closed", exc |-> "None",
               raised |-> "None"]

Init ==
    /\ max_fail \in MaxFailChoices
    /\ time_unit \in TimeUnitChoices
    /\ max_error_rate \in MaxErrorRateChoices
    /\ ValidConfig(time_unit, max_error_rate)
    /\ reset_timeout \in ResetTimeoutChoices
    /\ error_types \in ErrorTypesChoices
    /\ Fields
    /\ Start

\* ------------------------------------------------------------------ clock
\* Clock.advance(seconds)
advance(seconds) ==
    /\ now' = now + seconds
    /\ last' = [op |-> "tick", from |-> state, exc |-> "None",
                raised |-> "None"]
    /\ UNCHANGED <<config, breaker, pc, threads, num_errors, opened_at>>

Tick ==
    /\ now < MaxTime
    /\ advance(1)

\* -------------------------------------------------------------- __enter__
\* Mutant: the timeout compared with <= instead of <.
StillOpen_Inclusive(delta) == delta <= reset_timeout

\* delta < self._reset_timeout: the circuit is still open.
StillOpen(delta) == delta < reset_timeout

\* Whether __enter__ raises CircuitOpenError.
EnterRaises ==
    /\ state = "open"
    /\ StillOpen(now - last_change[1])

\* Mutant: the state is moved to half-open before the timeout is tested.
__enter__early ==
    IF state = "open"
    THEN /\ state' = "half-open"
         /\ UNCHANGED <<last_change, error_times, num_calls>>
    ELSE UNCHANGED breaker

\* Mutant: the move to half-open is stamped in last_change.
__enter__stamp ==
    IF state = "open"
    THEN IF StillOpen(now - last_change[1])
         THEN UNCHANGED breaker
         ELSE /\ state' = "half-open"
              /\ last_change' = <<now>>
              /\ UNCHANGED <<error_times, num_calls>>
    ELSE UNCHANGED breaker

\* CircuitBreaker.__enter__
__enter__ ==
    IF state = "open"
    THEN IF StillOpen(now - last_change[1])
         THEN UNCHANGED breaker
         ELSE /\ state' = "half-open"
              /\ UNCHANGED <<last_change, error_times, num_calls>>
    ELSE UNCHANGED breaker

\* --------------------------------------------------------------- _success
\* Mutant: a success never closes the circuit.
_success_keep == UNCHANGED <<state, last_change, error_times>>

\* Mutant: a success closes the circuit from open as well.
_success_any ==
    /\ state' = "closed"
    /\ UNCHANGED <<last_change, error_times>>

\* CircuitBreaker._success
_success ==
    /\ state' = IF state = "half-open" THEN "closed" ELSE state
    /\ UNCHANGED <<last_change, error_times>>

\* ----------------------------------------------------------------- _error
RECURSIVE Sum(_)
Sum(s) == IF s = <<>> THEN 0 ELSE Head(s) + Sum(Tail(s))

\* Mutant: the window compared with <= instead of <.
TimeCondition_Inclusive(delta) ==
    time_unit # None => delta <= time_unit[1]

\* delta < self._time_unit, when time_unit is given
TimeCondition(delta) ==
    time_unit # None => delta < time_unit[1]

\* Mutant: the rate compared with > instead of >=.
RateCondition_Strict(total_calls) ==
    max_error_rate # None =>
        max_fail * max_error_rate[2] > max_error_rate[1] * total_calls

\* error_rate >= self._max_error_rate, when max_error_rate is given, with
\* error_rate = self._max_fail / total_calls and total_calls > 0
RateCondition(total_calls) ==
    max_error_rate # None =>
        max_fail * max_error_rate[2] >= max_error_rate[1] * total_calls

\* The exception _error raises before it decides: the division by
\* total_calls, then the assertion error_rate <= 1.0.
ErrorRaises(earliest_error_time, total_calls) ==
    IF state = "closed" /\ earliest_error_time # None
    THEN IF total_calls = 0 THEN "ZeroDivisionError"
         ELSE IF max_fail > total_calls THEN "AssertionError"
         ELSE "None"
    ELSE "None"

\* Mutant: the conditions are evaluated in every state, not only in closed.
SetOpen_AnyState(earliest_error_time, total_calls) ==
    IF earliest_error_time = None
    THEN FALSE
    ELSE /\ TimeCondition(now - earliest_error_time[1])
         /\ RateCondition(total_calls)

\* Mutant: one configured condition is enough to open.
SetOpen_Either(earliest_error_time, total_calls) ==
    IF state = "closed"
    THEN IF earliest_error_time = None
         THEN FALSE
         ELSE \/ time_unit # None /\ TimeCondition(now - earliest_error_time[1])
              \/ max_error_rate # None /\ RateCondition(total_calls)
    ELSE TRUE

\* Mutant: set_open is left True when no earliest error time exists.
SetOpen_NoHistory(earliest_error_time, total_calls) ==
    IF state = "closed"
    THEN IF earliest_error_time = None
         THEN TRUE
         ELSE /\ TimeCondition(now - earliest_error_time[1])
              /\ RateCondition(total_calls)
    ELSE TRUE

\* The value of set_open at "if set_open:".
SetOpen(earliest_error_time, total_calls) ==
    IF state = "closed"
    THEN IF earliest_error_time = None
         THEN FALSE
         ELSE /\ TimeCondition(now - earliest_error_time[1])
              /\ RateCondition(total_calls)
    ELSE TRUE

\* The timestamp popped from the ring after now has been appended.
Earliest == Head(Append(error_times, <<now>>))

\* CircuitBreaker._error, entered with the call counts as __exit__ left them.
_error(calls) ==
    LET earliest_error_time == Earliest
        total_calls == Sum(calls)
    IN  /\ error_times' = Tail(Append(error_times, <<now>>))
        /\ num_calls' = Tail(Append(calls, 0))
        /\ IF /\ ErrorRaises(earliest_error_time, total_calls) = "None"
              /\ SetOpen(earliest_error_time, total_calls)
           THEN /\ state' = "open"
                /\ last_change' = <<now>>
           ELSE UNCHANGED <<state, last_change>>

\* --------------------------------------------------------------- __exit__
\* Mutant: the call is not counted.
Incremented_Skip(calls) == calls

\* self._num_calls[-1] += 1
Incremented(calls) == [calls EXCEPT ![Len(calls)] = @ + 1]

\* exc_type is None or not isinstance(exc_val, self._error_types)
IsSuccess(exc) == exc = "None" \/ ~IsInstance(exc, error_types)

\* What self._num_calls[-1] raises: the ring is empty when the breaker was
\* constructed with max_fail <= 0.
CountRaises == IF Len(num_calls) = 0 THEN "IndexError" ELSE "None"

\* CircuitBreaker.__exit__
__exit__(exc) ==
    IF CountRaises # "None"
    THEN UNCHANGED breaker
    ELSE IF IsSuccess(exc)
         THEN /\ _success
              /\ num_calls' = Incremented(num_calls)
         ELSE _error(Incremented(num_calls))

\* What leaves the with statement: __exit__ returns False, so the operation's
\* own exception, unless __exit__ itself raised.
ExitRaises(exc) ==
    IF CountRaises # "None"
    THEN CountRaises
    ELSE IF IsSuccess(exc)
         THEN exc
         ELSE LET r == ErrorRaises(Earliest, Sum(Incremented(num_calls)))
              IN  IF r = "None" THEN exc ELSE r

\* --------------------------------------------------- __call__ / with self
\* Mutant: the body runs whether or not __enter__ raised.
wrapped_enter_always(c) ==
    /\ pc[c] = "idle"
    /\ __enter__
    /\ pc' = [pc EXCEPT ![c] = "func"]
    /\ last' = [op |-> "enter", from |-> state, exc |-> "None",
                raised |-> IF EnterRaises THEN "CircuitOpenError" ELSE "None"]
    /\ UNCHANGED <<config, now, threads, num_errors, opened_at>>

\* "with self:" reaches __enter__; when it raises, the body is skipped.
wrapped_enter(c) ==
    /\ pc[c] = "idle"
    /\ __enter__
    /\ pc' = [pc EXCEPT ![c] = IF EnterRaises THEN "idle" ELSE "func"]
    /\ last' = [op |-> "enter", from |-> state, exc |-> "None",
                raised |-> IF EnterRaises THEN "CircuitOpenError" ELSE "None"]
    /\ UNCHANGED <<config, now, threads, num_errors, opened_at>>

\* The protected operation returns or raises exc and the with statement
\* leaves through __exit__.
wrapped_exit(c, exc) ==
    /\ pc[c] = "func"
    /\ CountRaises = "None" => num_calls[Len(num_calls)] < MaxCalls
    /\ __exit__(exc)
    /\ pc' = [pc EXCEPT ![c] = "idle"]
    /\ num_errors' = IF \/ CountRaises # "None"
                        \/ IsSuccess(exc)
                        \/ num_errors > max_fail
                     THEN num_errors ELSE num_errors + 1
    /\ opened_at' = IF state # "open" /\ state' = "open"
                     THEN <<now>> ELSE opened_at
    /\ last' = [op |-> "exit", from |-> state, exc |-> exc,
                raised |-> ExitRaises(exc)]
    /\ UNCHANGED <<config, now, threads>>

Enter == \E c \in Callers : wrapped_enter(c)
Exit == \E c \in Callers : \E exc \in Outcomes : wrapped_exit(c, exc)

Next == Tick \/ Enter \/ Exit

Spec == Init /\ [][Next]_vars

\* ------------------------------------------- construction, any arguments
\* Arguments __init__ may be called with, the ones it must refuse included.
CtorMaxFailChoices == (-1)..MaxFail
CtorMaxErrorRateChoices ==
    MaxErrorRateChoices \cup {<<0, 1>>, <<1, 1>>, <<3, 2>>}

\* __init__ raised ValueError: there is no breaker.
NoBreaker ==
    /\ last_change = None
    /\ error_times = <<>>
    /\ num_calls = <<>>
    /\ state = "unconstructed"
    /\ last = [op |-> "init", from |-> "unconstructed", exc |-> "None",
               raised |-> "ValueError"]

InitCtor ==
    /\ max_fail \in CtorMaxFailChoices
    /\ time_unit \in TimeUnitChoices
    /\ max_error_rate \in CtorMaxErrorRateChoices
    /\ reset_timeout \in ResetTimeoutChoices
    /\ error_types \in ErrorTypesChoices
    /\ IF ValidConfig(time_unit, max_error_rate) THEN Fields ELSE NoBreaker
    /\ Start

NextCtor == state # "unconstructed" /\ Next

SpecCtor == InitCtor /\ [][NextCtor]_vars

\* ----------------------------------------------------- the 60 s scenario
\* A breaker built with max_fail=2, time_unit=60, reset_timeout=10 and the
\* clock readings at which it is used; the clock is advanced from one
\* reading to the next.
ScenarioClock == <<0, 1, 2, 11, 12>>

InitScenario ==
    /\ max_fail = 2
    /\ time_unit = <<60>>
    /\ max_error_rate = None
    /\ reset_timeout = 10
    /\ error_types = {"IOError"}
    /\ Fields
    /\ Start

ScenarioTick ==
    \E i \in 1..(Len(ScenarioClock) - 1) :
        /\ now = ScenarioClock[i]
        /\ advance(ScenarioClock[i + 1] - now)

NextScenario == ScenarioTick \/ Enter \/ Exit

SpecScenario == InitScenario /\ [][NextScenario]_vars

\* ------------------------------------------------ ThreadSafeCircuitBreaker
\* Threads share one ThreadSafeCircuitBreaker and call __enter__ and
\* __exit__ on it.  A thread may be switched between any two bytecodes, so
\* "self._num_calls[-1] += 1" is a load and a store, and only what runs
\* under self._state_lock is kept apart from the other holders of the lock.

\* What evaluating self.state raises: CircuitBreaker assigns self._state and
\* has no attribute or property named state.
StateRaises == "AttributeError"

\* ThreadSafeCircuitBreaker.__enter__: "if self.state != 'open'" raises
\* before anything is read or written.
ts_enter(t) ==
    /\ pc[t] = "idle"
    /\ last' = [op |-> "enter", from |-> state, exc |-> "None",
                raised |-> StateRaises]
    /\ UNCHANGED <<config, breaker, now, pc, threads, num_errors, opened_at>>

\* CircuitBreaker.__exit__, first half of "self._num_calls[-1] += 1": the
\* newest slot is loaded.
ts_exit_load(t, exc) ==
    /\ pc[t] = "idle"
    /\ num_calls[Len(num_calls)] < MaxCalls
    /\ pc' = [pc EXCEPT ![t] = "store"]
    /\ local' = [local EXCEPT ![t] = [NoLocals EXCEPT
                     !.exc = exc, !.val = num_calls[Len(num_calls)]]]
    /\ last' = [op |-> "load", from |-> state, exc |-> exc,
                raised |-> "None"]
    /\ UNCHANGED <<config, breaker, now, lock, num_errors, opened_at>>

\* Second half: the loaded value plus one is stored in the slot that is the
\* newest now.  Then __exit__ calls ThreadSafeCircuitBreaker._success, whose
\* "if self.state != 'half-open'" raises, or ThreadSafeCircuitBreaker._error,
\* which waits for the lock.
ts_exit_store(t) ==
    /\ pc[t] = "store"
    /\ num_calls' = [num_calls EXCEPT ![Len(num_calls)] = local[t].val + 1]
    /\ IF IsSuccess(local[t].exc)
       THEN /\ pc' = [pc EXCEPT ![t] = "idle"]
            /\ local' = [local EXCEPT ![t] = NoLocals]
            /\ last' = [op |-> "exit", from |-> state,
                        exc |-> local[t].exc, raised |-> StateRaises]
       ELSE /\ pc' = [pc EXCEPT ![t] = "error"]
            /\ local' = local
            /\ last' = [op |-> "store", from |-> state,
                        exc |-> local[t].exc, raised |-> "None"]
    /\ UNCHANGED <<config, state, last_change, error_times, now, lock,
                   num_errors, opened_at>>

\* ThreadSafeCircuitBreaker._error takes the lock; CircuitBreaker._error
\* reads the clock, pushes now on the ring of error times and sums the call
\* counts.  The state is only written under the lock, so what is decided
\* later is fixed here.
ts_error_begin(t) ==
    /\ pc[t] = "error"
    /\ lock = 0
    /\ lock' = t
    /\ error_times' = Tail(Append(error_times, <<now>>))
    /\ local' = [local EXCEPT ![t] = [@ EXCEPT
                     !.now = now,
                     !.raises = ErrorRaises(Earliest, Sum(num_calls)),
                     !.set_open = SetOpen(Earliest, Sum(num_calls))]]
    /\ pc' = [pc EXCEPT ![t] = "decide"]
    /\ last' = [op |-> "sum", from |-> state, exc |-> local[t].exc,
                raised |-> "None"]
    /\ UNCHANGED <<config, state, last_change, num_calls, now,
                   num_errors, opened_at>>

\* CircuitBreaker._error shifts the ring of call counts, divides, asserts
\* and decides; the lock is released on the way out, raising or not.
ts_error_end(t) ==
    /\ pc[t] = "decide"
    /\ num_calls' = Tail(Append(num_calls, 0))
    /\ IF local[t].raises = "None" /\ local[t].set_open
       THEN /\ state' = "open"
            /\ last_change' = <<local[t].now>>
       ELSE UNCHANGED <<state, last_change>>
    /\ lock' = 0
    /\ pc' = [pc EXCEPT ![t] = "idle"]
    /\ local' = [local EXCEPT ![t] = NoLocals]
    /\ num_errors' = IF num_errors > max_fail
                     THEN num_errors ELSE num_errors + 1
    /\ opened_at' = IF state # "open" /\ state' = "open"
                     THEN <<local[t].now>> ELSE opened_at
    /\ last' = [op |-> "exit", from |-> state, exc |-> local[t].exc,
                raised |-> IF local[t].raises = "None"
                           THEN local[t].exc ELSE local[t].raises]
    /\ UNCHANGED <<config, error_times, now>>

\* Every step of thread t.
thread(t) ==
    \/ ts_enter(t)
    \/ \E exc \in Outcomes : ts_exit_load(t, exc)
    \/ ts_exit_store(t)
    \/ ts_error_begin(t)
    \/ ts_error_end(t)

NextThreads == Tick \/ \E t \in Callers : thread(t)

SpecThreads == Init /\ [][NextThreads]_vars

\* One thread alone uses the ThreadSafeCircuitBreaker.
NextOneThread == Tick \/ thread(1)

SpecOneThread == Init /\ [][NextOneThread]_vars

\* =================================================================== claims
\* The steps are told apart by the history record the step leaves in last'.
EnterStep == last'.op = "enter"
ExitStep == last'.op = "exit"

\* An instance, or an instance of a subclass, of a configured error type.
Qualifies(exc) ==
    \E t \in error_types : exc = t \/ (exc = "SubIOError" /\ t = "IOError")

\* An exit that records a qualifying failure.
FailureStep == ExitStep /\ Qualifies(last'.exc)

\* The sum of the first n call-count slots.
RECURSIVE TotalUpTo(_, _)
TotalUpTo(calls, n) ==
    IF n = 0 THEN 0 ELSE TotalUpTo(calls, n - 1) + calls[n]

Total(calls) == TotalUpTo(calls, Len(calls))

\* C1: in state open, a permission check at clock time now is rejected with
\* CircuitOpenError when now - last_change < reset_timeout, and otherwise
\* (equality included) moves the state to half-open and admits the caller.
C1_OpenEnter ==
    [][ (EnterStep /\ state = "open") =>
            IF now - last_change[1] < reset_timeout
            THEN /\ last'.raised = "CircuitOpenError"
                 /\ state' = "open"
                 /\ pc' = pc
            ELSE /\ last'.raised = "None"
                 /\ state' = "half-open"
                 /\ \E c \in Callers :
                        /\ pc[c] = "idle"
                        /\ pc' = [pc EXCEPT ![c] = "func"] ]_vars

\* A check made exactly reset_timeout after the circuit opened was admitted.
C1_Witness ==
    /\ last.op = "enter"
    /\ last.from = "open"
    /\ last.raised = "None"
    /\ state = "half-open"
    /\ now - last_change[1] = reset_timeout

\* C2: from half-open, an exit without a qualifying error closes the circuit
\* and an exit with a qualifying error opens it, whatever the rings hold and
\* whatever time_unit and max_error_rate are.
C2_HalfOpenExit ==
    [][ (ExitStep /\ state = "half-open") =>
            IF Qualifies(last'.exc)
            THEN state' = "open" /\ last_change' = <<now>>
            ELSE state' = "closed" ]_vars

\* A failed probe reopened a circuit whose ring still has an empty slot or
\* whose oldest error is outside the time window.
C2_Witness ==
    /\ last.op = "exit"
    /\ last.from = "half-open"
    /\ Qualifies(last.exc)
    /\ state = "open"
    /\ time_unit # None
    /\ max_fail = 2
    /\ now - error_times[1][1] >= time_unit[1]

\* C3: with time_unit only, a qualifying failure recorded in state closed
\* opens the circuit exactly when max_fail earlier failures were recorded and
\* the oldest timestamp of the ring is less than time_unit before now;
\* otherwise the state stays closed.
C3_TimeOnly ==
    [][ (FailureStep /\ state = "closed"
            /\ time_unit # None /\ max_error_rate = None) =>
            IF /\ num_errors >= max_fail
               /\ now - error_times[1][1] < time_unit[1]
            THEN state' = "open"
            ELSE state' = "closed" ]_vars

\* With max_fail = 2 the third failure, inside the window, opened the circuit.
C3_Witness ==
    /\ last.op = "exit"
    /\ last.from = "closed"
    /\ state = "open"
    /\ time_unit # None
    /\ max_error_rate = None
    /\ max_fail = 2
    /\ num_errors = 3

\* C4: with max_error_rate only, a qualifying failure recorded in state
\* closed opens the circuit exactly when max_fail earlier failures were
\* recorded and max_fail / total_calls >= max_error_rate, total_calls being
\* the sum of the call-count slots with the failing call counted in;
\* otherwise the state stays closed.
C4_RateOnly ==
    [][ (FailureStep /\ state = "closed"
            /\ time_unit = None /\ max_error_rate # None) =>
            IF /\ num_errors >= max_fail
               /\ max_fail * max_error_rate[2]
                      >= max_error_rate[1] * (Total(num_calls) + 1)
            THEN state' = "open"
            ELSE state' = "closed" ]_vars

\* The rate opened the circuit although the errors of the ring are further
\* apart than the time window the other configurations use.
C4_Witness ==
    /\ last.op = "exit"
    /\ last.from = "closed"
    /\ state = "open"
    /\ time_unit = None
    /\ max_error_rate # None
    /\ max_fail = 2
    /\ error_times[2][1] - error_times[1][1] >= 2

\* C5: with time_unit and max_error_rate both given, a qualifying failure
\* recorded in state closed opens the circuit when the time condition and
\* the rate condition both hold for it, and leaves it closed when either
\* fails.
C5_TimeAndRate ==
    [][ (FailureStep /\ state = "closed"
            /\ time_unit # None /\ max_error_rate # None) =>
            IF /\ num_errors >= max_fail
               /\ now - error_times[1][1] < time_unit[1]
               /\ max_fail * max_error_rate[2]
                      >= max_error_rate[1] * (Total(num_calls) + 1)
            THEN state' = "open"
            ELSE state' = "closed" ]_vars

\* Both conditions held and the circuit opened.
C5_Witness ==
    /\ last.op = "exit"
    /\ last.from = "closed"
    /\ state = "open"
    /\ time_unit # None
    /\ max_error_rate # None

\* C6: from construction on, while at most max_fail qualifying failures have
\* been recorded, the state is closed.
C6_BelowThreshold == num_errors <= max_fail => state = "closed"

\* The max_fail-th failure was recorded, among successes, and the circuit is
\* closed.
C6_Witness ==
    /\ last.op = "exit"
    /\ Qualifies(last.exc)
    /\ max_fail = 2
    /\ num_errors = max_fail
    /\ Total(num_calls) > 1
    /\ state = "closed"

\* C7: an exception of the protected operation reaches the caller as it was
\* raised; when it is no instance of a configured error type the ring of
\* error times is left as it was, and when it is one (a subclass instance
\* included) the ring takes exactly one timestamp, now, and drops its oldest.
C7_Propagation ==
    [][ (ExitStep /\ last'.exc # "None") =>
            /\ last'.raised = last'.exc
            /\ IF Qualifies(last'.exc)
               THEN error_times' = Tail(error_times) \o << <<now>> >>
               ELSE error_times' = error_times ]_vars

\* A subclass instance of the configured type was recorded and propagated.
C7_Witness ==
    /\ last.op = "exit"
    /\ last.exc = "SubIOError"
    /\ last.raised = "SubIOError"
    /\ error_types = {"IOError"}
    /\ error_times[max_fail] = <<now>>

\* C8 as stated: an exit with an exception outside error_types leaves state,
\* the call-count ring and last_change unchanged.
C8_Invisible ==
    [][ (ExitStep /\ last'.exc # "None" /\ ~Qualifies(last'.exc)) =>
            UNCHANGED <<state, num_calls, last_change>> ]_vars

\* C8 (amended): an exit with an exception outside error_types is recorded
\* as a success: the rings of error times and last_change are unchanged, the
\* newest call-count slot grows by one, and the state goes from half-open to
\* closed and is otherwise unchanged.
C8_CountedAsSuccess ==
    [][ (ExitStep /\ last'.exc # "None" /\ ~Qualifies(last'.exc)) =>
            /\ UNCHANGED <<error_times, last_change>>
            /\ num_calls' = [num_calls EXCEPT ![max_fail] = num_calls[max_fail] + 1]
            /\ state' = IF state = "half-open" THEN "closed" ELSE state ]_vars

\* An exception outside error_types closed a half-open circuit.
C8_Witness ==
    /\ last.op = "exit"
    /\ last.exc = "RuntimeError"
    /\ last.from = "half-open"
    /\ state = "closed"

\* C9: a permission check that is rejected with CircuitOpenError leaves the
\* state, both rings and last_change as they were.
C9_RejectedFrame ==
    [][ (EnterStep /\ last'.raised = "CircuitOpenError") =>
            UNCHANGED <<state, error_times, num_calls, last_change>> ]_vars

\* A check was rejected.
C9_Witness ==
    /\ last.op = "enter"
    /\ last.raised = "CircuitOpenError"
    /\ state = "open"
    /\ now - last_change[1] < reset_timeout

\* C10: a rejected check starts no protected operation and records no
\* outcome; an admitted check starts the operation of exactly one caller; an
\* operation only starts by an admitted check and only ends through one
\* __exit__, which counts one call and returns control to the caller.
C10_Protocol ==
    [][ /\ (EnterStep /\ last'.raised = "CircuitOpenError") =>
                pc' = pc /\ UNCHANGED <<error_times, num_calls>>
        /\ (EnterStep /\ last'.raised = "None") =>
                /\ UNCHANGED <<error_times, num_calls>>
                /\ \E c \in Callers :
                       pc[c] = "idle" /\ pc' = [pc EXCEPT ![c] = "func"]
        /\ ExitStep =>
                /\ \E c \in Callers :
                       pc[c] = "func" /\ pc' = [pc EXCEPT ![c] = "idle"]
                /\ LET counted == [num_calls EXCEPT
                                      ![max_fail] = num_calls[max_fail] + 1]
                   IN  num_calls' \in {counted, Tail(counted) \o <<0>>}
        /\ \A c \in Callers :
               /\ (pc[c] = "idle" /\ pc'[c] = "func") =>
                      EnterStep /\ last'.raised = "None"
               /\ (pc[c] = "func" /\ pc'[c] = "idle") => ExitStep ]_vars

\* One caller was rejected while another caller's operation, admitted before
\* the circuit opened, is still running.
C10_Witness ==
    /\ last.op = "enter"
    /\ last.raised = "CircuitOpenError"
    /\ \E c, d \in Callers : pc[c] = "idle" /\ pc[d] = "func"

\* C12 as stated: once the breaker is half-open, no further permission check
\* is admitted until an outcome has moved it out of half-open.
C12_SingleProbe ==
    [][ (EnterStep /\ state = "half-open") => last'.raised # "None" ]_vars

\* C15: the state starts as closed, and every change of state is closed to
\* open on a recorded failure, open to half-open on a permission check,
\* half-open to closed on a recorded success, or half-open to open on a
\* recorded failure.
C15_Transitions ==
    /\ state = "closed"
    /\ [][ state' # state =>
               \/ state = "closed" /\ state' = "open" /\ FailureStep
               \/ state = "open" /\ state' = "half-open" /\ EnterStep
               \/ /\ state = "half-open" /\ state' = "closed"
                  /\ ExitStep /\ ~Qualifies(last'.exc)
               \/ state = "half-open" /\ state' = "open" /\ FailureStep ]_vars

\* The breaker went through open and half-open and was closed by a success.
C15_Witness ==
    /\ last.op = "exit"
    /\ last.from = "half-open"
    /\ state = "closed"
    /\ num_errors > max_fail

\* C16 as stated: last_change takes the clock time at every transition into
\* open or out of open, and no other step changes it.
C16_LastTransition ==
    [][ IF state' # state /\ (state = "open" \/ state' = "open")
        THEN last_change' = <<now>>
        ELSE last_change' = last_change ]_vars

\* C16 (amended): last_change takes the clock time at every recorded
\* qualifying failure that leaves the state open (from closed, from
\* half-open, or while already open), and no other step changes it, the
\* permission check that moves open to half-open included.
C16_LastOpeningFailure ==
    [][ IF FailureStep /\ state' = "open"
        THEN last_change' = <<now>>
        ELSE last_change' = last_change ]_vars

\* The breaker has just left open for half-open and last_change still holds
\* the earlier time at which it opened.
C16_Witness ==
    /\ last.op = "enter"
    /\ last.from = "open"
    /\ state = "half-open"
    /\ last_change[1] < now

\* C18: no exit raises ZeroDivisionError or AssertionError, and once the
\* ring of error times is full every call-count slot but the newest holds
\* at least 1, so the sum _error divides by is at least max_fail.
C18_RateDefined ==
    /\ last.raised \notin {"ZeroDivisionError", "AssertionError"}
    /\ (num_errors >= max_fail \/ error_times[1] # None) =>
           \A i \in 1..(max_fail - 1) : num_calls[i] >= 1

\* A failure was evaluated in state closed against a full ring of error
\* times, with a rate configured.
C18_Witness ==
    /\ last.op = "exit"
    /\ last.from = "closed"
    /\ Qualifies(last.exc)
    /\ num_errors > max_fail
    /\ max_error_rate # None
    /\ max_fail = 2

\* C17 as stated: when the circuit opened at time T, a permission check made
\* at or after T + reset_timeout while the state is still open is admitted
\* and moves the state to half-open, whatever was recorded since T.
C17_OpenDuration ==
    [][ (EnterStep /\ state = "open"
            /\ now - opened_at[1] >= reset_timeout) =>
            last'.raised = "None" /\ state' = "half-open" ]_vars

\* C13 as stated: construction raises, and leaves no breaker, when
\* max_fail <= 0, when time_unit and max_error_rate are both None, or when
\* max_error_rate is given outside (0, 1]; otherwise it returns a closed
\* breaker whose two rings hold max_fail empty slots.
C13_Validation ==
    last.op = "init" =>
        IF \/ max_fail <= 0
           \/ time_unit = None /\ max_error_rate = None
           \/ /\ max_error_rate # None
              /\ ~(0 < max_error_rate[1]
                     /\ max_error_rate[1] <= max_error_rate[2])
        THEN last.raised = "ValueError" /\ state = "unconstructed"
        ELSE /\ last.raised = "None"
             /\ state = "closed"
             /\ error_times = [i \in 1..max_fail |-> None]
             /\ num_calls = [i \in 1..max_fail |-> 0]

\* The parts of the scenario of C14 that do not depend on the time of the
\* permission check: the first two failures leave the state closed, the
\* third, at t=2 with the failures of t=0 and t=1 in the ring, opens the
\* circuit, and a success recorded in half-open closes it.
ScenarioFailures ==
    /\ (FailureStep /\ num_errors < 2) => state' = "closed"
    /\ (FailureStep /\ state = "closed" /\ now = 2
            /\ error_times = << <<0>>, <<1>> >>) =>
           state' = "open" /\ last_change' = <<2>>
    /\ (ExitStep /\ state = "half-open" /\ ~Qualifies(last'.exc)) =>
           state' = "closed"

\* A permission check at clock time t on the circuit that opened at t=2.
CheckAt(t) == EnterStep /\ state = "open" /\ last_change = <<2>> /\ now = t

\* C14 as stated: ..., and the permission check at t=11 is admitted and moves
\* the state to half-open.
C14_Scenario ==
    [][ /\ ScenarioFailures
        /\ CheckAt(11) =>
               last'.raised = "None" /\ state' = "half-open" ]_vars

\* C14 (amended): with max_fail=2, time_unit=60, reset_timeout=10, failures
\* at t=0, 1 and 2 leave the state closed, closed and open; a permission
\* check at t=11 is rejected and leaves the state open; a permission check
\* at t=12 is admitted and moves the state to half-open; a success recorded
\* after that closes the circuit.
C14_ScenarioAt12 ==
    [][ /\ ScenarioFailures
        /\ CheckAt(11) =>
               last'.raised = "CircuitOpenError" /\ state' = "open"
        /\ CheckAt(12) =>
               last'.raised = "None" /\ state' = "half-open" ]_vars

\* The end of the scenario: three failures, the last two at t=1 and t=2, the
\* circuit opened at t=2, was probed at t=12 and closed by a success.
C14_Witness ==
    /\ last.op = "exit"
    /\ last.from = "half-open"
    /\ state = "closed"
    /\ now = 12
    /\ num_errors = 3
    /\ error_times = << <<1>>, <<2>> >>
    /\ last_change = <<2>>

\* Every thread is outside __enter__ and __exit__.
Quiescent == \A t \in Callers : pc[t] = "idle"

\* C11 as stated: outcome recordings do not interleave, so the breaker is
\* always left as some serial order of whole __exit__ calls leaves it; in a
\* serial order every call-count slot that a recorded failure has closed
\* counts at least the failing call.
C11_Serial ==
    Quiescent =>
        \A i \in 1..(max_fail - 1) :
            error_times[i + 1] # None => num_calls[i] >= 1

\* C19 as stated: under every interleaving, _error divides by a call total of
\* at least max_fail: it raises neither ZeroDivisionError nor AssertionError.
C19_RateDefined ==
    /\ last.raised \notin {"ZeroDivisionError", "AssertionError"}
    /\ \A t \in Callers :
           local[t].raises \notin {"ZeroDivisionError", "AssertionError"}

\* C20 as stated: used by one thread, the ThreadSafeCircuitBreaker answers a
\* permission check as CircuitBreaker answers it in the same state, an exit
\* raises nothing but the exception it was given, and the lock is free when
\* the thread is in no call.
C20_Equivalent ==
    [][ /\ EnterStep =>
               last'.raised =
                   IF EnterRaises THEN "CircuitOpenError" ELSE "None"
        /\ ExitStep => last'.raised = last'.exc
        /\ pc'[1] = "idle" => lock' = 0 ]_vars

====
